---- MODULE Spec2Model ----
(***************************************************************************)
(* Model of src/src/components/Graph/Graph.js: the time grid and its       *)
(* quantizer, the alignment and stacking of the input series, the hover    *)
(* and focus resolution, and the legend selection.                         *)
(*                                                                         *)
(* Numbers are integers; a quotient the code computes in floating point    *)
(* (a scale inversion, a quantizer threshold) is kept exact as a pair      *)
(* numerator/denominator and compared by cross-multiplication.             *)
(* JavaScript arrays are 0-based; sequences here are 1-based.              *)
(***************************************************************************)
EXTENDS Integers, Sequences, FiniteSets

VARIABLES props, state, mounted, cursorValue, output

vars == <<props, state, mounted, cursorValue, output>>

(***************************************************************************)
(* Bounds of the model.                                                    *)
(***************************************************************************)
\* Window timestamps of the grid specification range over 0..TimeHi.
TimeHi == 12
\* stepDurationSec ranges over 1..MaxStep.
MaxStep == 4
\* Raw sample texts of the parser specification have at most MaxRawLen characters.
MaxRawLen == 3
\* The charts' windows start at ChartTimeLo and end by ChartTimeHi.
ChartTimeLo == 8
ChartTimeHi == 10
\* An input series of the alignment specification has at most MaxSamples samples.
MaxSamples == 2
\* The drawing surface (getSvgBoundingRect) is SvgWidth by SvgHeight pixels;
\* handleResize only forces a render and changes no state.
SvgWidth == 1
SvgHeight == 7
\* The valuesMinSpread prop, in the model's integer unit.
MinSpread == 1

(***************************************************************************)
(* JavaScript values.                                                      *)
(***************************************************************************)
\* A number, null, the two infinities and NaN, as tagged records.
Num(n) == [k |-> "num", n |-> n]
Null == [k |-> "null", n |-> 0]
Infinity == [k |-> "inf", n |-> 0]
NegInfinity == [k |-> "ninf", n |-> 0]
NaN == [k |-> "nan", n |-> 0]
\* The value of an absent array element or object field.
Undefined == [k |-> "undefined", n |-> 0]

\* ToNumber of a number or null, as `offset + value` and `+value` apply it.
ToNumber(v) == IF v.k = "num" THEN v.n ELSE 0

(***************************************************************************)
(* Number::toString and the default Array.prototype.sort order.            *)
(***************************************************************************)
RECURSIVE NatToString(_)
\* The decimal digits of a natural number as UTF-16 code units.
NatToString(n) ==
  IF n < 10 THEN <<48 + n>> ELSE Append(NatToString(n \div 10), 48 + (n % 10))

\* Number::toString of an integer ("-" is code unit 45).
NumberToString(n) == IF n < 0 THEN <<45>> \o NatToString(-n) ELSE NatToString(n)

RECURSIVE StringLess(_, _)
\* s < t for strings: code unit by code unit, a proper prefix first.
StringLess(s, t) ==
  IF t = <<>> THEN FALSE
  ELSE IF s = <<>> THEN TRUE
  ELSE IF Head(s) # Head(t) THEN Head(s) < Head(t)
  ELSE StringLess(Tail(s), Tail(t))

\* The element of a non-empty set of integers whose string is least.
StringMin(S) ==
  CHOOSE m \in S : \A o \in S \ {m} : StringLess(NumberToString(m), NumberToString(o))

RECURSIVE SortedByString(_)
SortedByString(S) ==
  IF S = {} THEN <<>> ELSE <<StringMin(S)>> \o SortedByString(S \ {StringMin(S)})

SeqRange(seq) == {seq[i] : i \in 1..Len(seq)}

\* Array.prototype.sort() without a comparator, on an array of distinct
\* integers: ascending by the elements' strings.
ArraySort(seq) == SortedByString(SeqRange(seq))

(***************************************************************************)
(* lodash range.                                                           *)
(***************************************************************************)
\* A range counted up from startTimeSec instead of down from endTimeSec.
LodashRangeUp(endTimeSec, startTimeSec, stepDurationSec) ==
  LET length == IF endTimeSec >= startTimeSec
                THEN ((endTimeSec - startTimeSec) \div stepDurationSec) + 1
                ELSE 0
  IN [i \in 1..length |-> startTimeSec + (length - i) * stepDurationSec]

\* range(endTimeSec, startTimeSec - 1e-6, -stepDurationSec): its length is
\* max(ceil((end - start + 1e-6) / step), 0), which for integers is
\* floor((end - start) / step) + 1 when end >= start, and its i-th element
\* is end - i * step.
LodashRangeDown(endTimeSec, startTimeSec, stepDurationSec) ==
  LET length == IF endTimeSec >= startTimeSec
                THEN ((endTimeSec - startTimeSec) \div stepDurationSec) + 1
                ELSE 0
  IN [i \in 1..length |-> endTimeSec - (i - 1) * stepDurationSec]

(***************************************************************************)
(* getTimestampQuantizer: the grid and the d3 quantize scale over it.      *)
(***************************************************************************)
\* The range of the scale: timestampSecs.
TimestampSecs(p) ==
  ArraySort(LodashRangeDown(p.endTimeSec, p.startTimeSec, p.stepDurationSec))

\* The quantizer as data: its range and twice its domain ends
\* (startDomain = first - step / 2, endDomain = last + step / 2).
getTimestampQuantizer(p) ==
  LET timestampSecs == TimestampSecs(p)
  IN [range |-> timestampSecs,
      x0twice |-> 2 * timestampSecs[1] - p.stepDurationSec,
      x1twice |-> 2 * timestampSecs[Len(timestampSecs)] + p.stepDurationSec]

\* d3 scaleQuantize's i-th threshold (0-based), times 2 * (n + 1), where
\* n = range.length - 1: domain[i] = ((i + 1) * x1 - (i - n) * x0) / (n + 1).
ThresholdScaled(q, i) ==
  LET n == Len(q.range) - 1
  IN (i + 1) * q.x1twice + (n - i) * q.x0twice

RECURSIVE BisectRight(_, _, _, _, _)
\* d3 bisectRight(domain, x, lo, hi) for x = xn / xd, xd > 0:
\* domain[mid] > x moves hi down, anything else moves lo up.
BisectRight(q, xn, xd, lo, hi) ==
  IF lo < hi
  THEN LET mid == (lo + hi) \div 2
       IN IF ThresholdScaled(q, mid) * xd > 2 * Len(q.range) * xn
          THEN BisectRight(q, xn, xd, lo, mid)
          ELSE BisectRight(q, xn, xd, mid + 1, hi)
  ELSE lo

\* timestampQuantizer(x) for x = xn / xd: range[bisect(domain, x, 0, n)].
Quantize(q, xn, xd) == q.range[BisectRight(q, xn, xd, 0, Len(q.range) - 1) + 1]

(***************************************************************************)
(* parseGraphValue.  A raw value is a text: a sequence of characters.      *)
(***************************************************************************)
DigitValue == [c \in {"0", "1", "2", "3", "4", "5", "6", "7", "8", "9"} |->
                 CASE c = "0" -> 0 [] c = "1" -> 1 [] c = "2" -> 2 [] c = "3" -> 3
                   [] c = "4" -> 4 [] c = "5" -> 5 [] c = "6" -> 6 [] c = "7" -> 7
                   [] c = "8" -> 8 [] c = "9" -> 9]

IsDigit(c) == c \in DOMAIN DigitValue

InfinityText == <<"I", "n", "f", "i", "n", "i", "t", "y">>

RECURSIVE TrimStart(_)
\* The text without its leading white space.
TrimStart(text) ==
  IF text # <<>> /\ Head(text) = " " THEN TrimStart(Tail(text)) ELSE text

RECURSIVE DigitPrefixLen(_)
\* The length of the longest prefix of decimal digits.
DigitPrefixLen(text) ==
  IF text # <<>> /\ IsDigit(Head(text)) THEN 1 + DigitPrefixLen(Tail(text)) ELSE 0

RECURSIVE DigitsValue(_, _)
\* The value of a text of digits, read after the digits that gave acc.
DigitsValue(text, acc) ==
  IF text = <<>> THEN acc
  ELSE DigitsValue(Tail(text), 10 * acc + DigitValue[Head(text)])

StartsWith(text, prefix) ==
  Len(text) >= Len(prefix) /\ SubSeq(text, 1, Len(prefix)) = prefix

\* parseFloat on a text without "." and exponent: white space is skipped,
\* then a sign, then either "Infinity" or the longest run of digits; no
\* digits means NaN.  What follows the number is ignored.
ParseFloat(text) ==
  LET trimmed == TrimStart(text)
      signed == trimmed # <<>> /\ Head(trimmed) \in {"+", "-"}
      negative == signed /\ Head(trimmed) = "-"
      body == IF signed THEN Tail(trimmed) ELSE trimmed
      len == DigitPrefixLen(body)
  IN IF StartsWith(body, InfinityText)
     THEN IF negative THEN NegInfinity ELSE Infinity
     ELSE IF len = 0 THEN NaN
     ELSE LET magnitude == DigitsValue(SubSeq(body, 1, len), 0)
          IN Num(IF negative THEN -magnitude ELSE magnitude)

\* parseGraphValue: NaN becomes null, every other result is returned.
parseGraphValue(value) ==
  LET val == ParseFloat(value)
  IN IF val = NaN THEN Null ELSE val

(***************************************************************************)
(* The component's props and state.                                        *)
(***************************************************************************)
\* The lengths of the palettes of colorThemes.
PaletteLength(colorTheme) ==
  CASE colorTheme = "mixed" -> 14
    [] colorTheme = "blue" -> 7
    [] colorTheme = "purple" -> 7

\* colorThemes[colorTheme](index): the palette entry, by its position.
getColor(colorTheme, index) == <<colorTheme, index % PaletteLength(colorTheme)>>

\* The caller's getSeriesName: a series' name is its metric.
getSeriesName(series) == series.metric

\* The code units of the series names of the model.
NameCode == [n \in {"a", "b", "c"} |->
               CASE n = "a" -> 97 [] n = "b" -> 98 [] n = "c" -> 99]

\* `${seriesName}:${seriesIndex}`, kept as a record (seriesIndex 0-based).
SeriesKey(seriesName, seriesIndex) ==
  [k |-> "key", name |-> seriesName, index |-> seriesIndex]

\* this.state as the constructor leaves it.
InitialState ==
  [selectedLegendSeriesKey |-> Null,
   hoveredLegendSeriesKey |-> Null,
   hoverTimestampSec |-> Null,
   hoverYOffset |-> Null,
   hoverXOffset |-> Null,
   hoverPoints |-> Null,
   multiSeries |-> <<>>]

(***************************************************************************)
(* processMultiSeries.                                                     *)
(***************************************************************************)
RECURSIVE SortNames(_)
\* Array.prototype.sort() on the derived names (single characters): ascending
\* by code unit.
SortNames(names) ==
  IF names = <<>> THEN <<>>
  ELSE LET i == CHOOSE i \in 1..Len(names) :
                  \A j \in 1..Len(names) : NameCode[names[i]] <= NameCode[names[j]]
       IN <<names[i]>> \o
          SortNames([j \in 1..(Len(names) - 1) |-> IF j < i THEN names[j] ELSE names[j + 1]])

\* The sorted list of names for all the series.
MultiSeriesNames(p) ==
  SortNames([i \in 1..Len(p.multiSeries) |-> getSeriesName(p.multiSeries[i])])

\* A table with every value null, as if the graph was empty.
EmptyValuesByTimestamp(timestampSecs, multiSeriesNames) ==
  [timestampSec \in SeqRange(timestampSecs) |->
     [seriesName \in SeqRange(multiSeriesNames) |-> Null]]

\* The name under which the series at seriesIndex (1-based) writes:
\* multiSeriesNames[seriesIndex], the sorted names at the input's index.
FillSeriesName(p, multiSeriesNames, seriesIndex) == multiSeriesNames[seriesIndex]

RECURSIVE FillPoints(_, _, _, _, _)
\* series.values.forEach from point pointIndex on: each parsed value
\* overwrites the slot of seriesName at the quantized timestamp.
FillPoints(table, q, seriesName, points, pointIndex) ==
  IF pointIndex > Len(points) THEN table
  ELSE LET point == points[pointIndex]
           value == parseGraphValue(point[2])
           timestampSec == Quantize(q, point[1], 1)
       IN FillPoints([table EXCEPT ![timestampSec][seriesName] = value],
                     q, seriesName, points, pointIndex + 1)

RECURSIVE FillSeries(_, _, _, _, _)
\* props.multiSeries.forEach from series seriesIndex on.
FillSeries(table, q, p, multiSeriesNames, seriesIndex) ==
  IF seriesIndex > Len(p.multiSeries) THEN table
  ELSE FillSeries(
         FillPoints(table, q, FillSeriesName(p, multiSeriesNames, seriesIndex),
                    p.multiSeries[seriesIndex].values, 1),
         q, p, multiSeriesNames, seriesIndex + 1)

\* valuesByTimestamp once every datapoint is filled in.
ValuesByTimestamp(p) ==
  LET q == getTimestampQuantizer(p)
      multiSeriesNames == MultiSeriesNames(p)
  IN FillSeries(EmptyValuesByTimestamp(q.range, multiSeriesNames), q, p,
                multiSeriesNames, 1)

RECURSIVE SortedAscending(_)
SortedAscending(S) ==
  IF S = {} THEN <<>>
  ELSE LET m == CHOOSE m \in S : \A o \in S : m <= o
       IN <<m>> \o SortedAscending(S \ {m})

\* sortBy(values(valuesByTimestamp), ['timestampSec']): the timestamps of
\* the rows, ascending as numbers.
ValuesForStacking(valuesByTimestamp) == SortedAscending(DOMAIN valuesByTimestamp)

RECURSIVE StackBaseline(_, _, _)
\* d3 stack() with the default order and offset: the baseline of the
\* series at seriesIndex (1-based) in a row is the top of the series below
\* it, where a null counts as +null = 0.
StackBaseline(row, multiSeriesNames, seriesIndex) ==
  IF seriesIndex = 1 THEN 0
  ELSE StackBaseline(row, multiSeriesNames, seriesIndex - 1)
       + ToNumber(row[multiSeriesNames[seriesIndex - 1]])

\* stackedData[seriesIndex][timestampIndex][0]: the rows are those of
\* valuesForStacking, in its order.
StackedOffset(valuesByTimestamp, multiSeriesNames, seriesIndex, timestampIndex) ==
  StackBaseline(
    valuesByTimestamp[ValuesForStacking(valuesByTimestamp)[timestampIndex]],
    multiSeriesNames, seriesIndex)

\* The multi-series processMultiSeries stores with setState.
processMultiSeries(p) ==
  LET multiSeriesNames == MultiSeriesNames(p)
      timestampSecs == getTimestampQuantizer(p).range
      valuesByTimestamp == ValuesByTimestamp(p)
  IN [seriesIndex \in 1..Len(multiSeriesNames) |->
        LET seriesName == multiSeriesNames[seriesIndex]
        IN [name |-> seriesName,
            key |-> SeriesKey(seriesName, seriesIndex - 1),
            color |-> getColor(p.colorTheme, seriesIndex - 1),
            datapoints |->
              [timestampIndex \in 1..Len(timestampSecs) |->
                 [timestampSec |-> timestampSecs[timestampIndex],
                  value |-> valuesByTimestamp[timestampSecs[timestampIndex]][seriesName],
                  offset |-> StackedOffset(valuesByTimestamp, multiSeriesNames,
                                           seriesIndex, timestampIndex)]]]]

(***************************************************************************)
(* Visible series, graph values and the y axis.                            *)
(***************************************************************************)
\* getVisibleMultiSeries: all the series when none is selected (null is
\* falsy), otherwise those whose key is the selected key.
getVisibleMultiSeries(st) ==
  IF st.selectedLegendSeriesKey = Null THEN st.multiSeries
  ELSE LET IsSelected(series) == st.selectedLegendSeriesKey = series.key
       IN SelectSeq(st.multiSeries, IsSelected)

\* getDatapointOffset: 0 while a series is selected.
getDatapointOffset(st, datapoint) ==
  IF st.selectedLegendSeriesKey # Null THEN 0 ELSE datapoint.offset

\* getDatapointGraphValue: the value itself (null for a gap) in a line
\* graph, offset + value (null counting as 0) in a stacked graph.
getDatapointGraphValue(p, st, datapoint) ==
  IF ~p.showStacked THEN datapoint.value
  ELSE Num(getDatapointOffset(st, datapoint) + ToNumber(datapoint.value))

\* The graph values of all the datapoints of the visible series.
YPositions(p, st) ==
  LET visible == getVisibleMultiSeries(st)
  IN UNION {{getDatapointGraphValue(p, st, visible[i].datapoints[j]) :
               j \in 1..Len(visible[i].datapoints)} : i \in 1..Len(visible)}

\* yAxisMax: lodash max skips null.
yAxisMax(p, st) ==
  LET candidates == {p.valuesMinSpread} \cup
                    {y.n : y \in {v \in YPositions(p, st) : v.k = "num"}}
  IN CHOOSE m \in candidates : \A o \in candidates : o <= m

(***************************************************************************)
(* getDatapointAtTimestamp.                                                *)
(***************************************************************************)
RECURSIVE SortedIndexFrom(_, _, _, _)
\* lodash sortedIndex's binary search between low and high (0-based).
SortedIndexFrom(array, value, low, high) ==
  IF low < high
  THEN LET mid == (low + high) \div 2
       IN IF array[mid + 1] < value
          THEN SortedIndexFrom(array, value, mid + 1, high)
          ELSE SortedIndexFrom(array, value, low, mid)
  ELSE high

sortedIndex(array, value) == SortedIndexFrom(array, value, 0, Len(array))

\* series.datapoints[sortedIndex(timestamps, timestampSec)]: undefined when
\* the index is the array's length.
getDatapointAtTimestamp(series, timestampSec) ==
  LET timestamps == [i \in 1..Len(series.datapoints) |-> series.datapoints[i].timestampSec]
      index == sortedIndex(timestamps, timestampSec)
  IN IF index < Len(series.datapoints) THEN series.datapoints[index + 1] ELSE Undefined

(***************************************************************************)
(* handleGraphMouseMove.                                                   *)
(***************************************************************************)
Ratio(num, den) == [k |-> "ratio", num |-> num, den |-> den]

\* The mark of a handler that threw.
Threw == [k |-> "threw", num |-> 0, den |-> 0]

Abs(n) == IF n < 0 THEN -n ELSE n

\* valueScale.invert(cursorYOffset) for domain [0, maxY], range [height, 0].
CursorValue(p, st, height, cursorYOffset) ==
  Ratio(yAxisMax(p, st) * (height - cursorYOffset), height)

\* timeScale.invert(cursorXOffset) for domain [start, end], range [0, width].
CursorTimestampSec(p, width, cursorXOffset) ==
  Ratio(p.startTimeSec * width + (p.endTimeSec - p.startTimeSec) * cursorXOffset, width)

\* timeScale(hoverTimestampSec).
TimeScale(p, width, timestampSec) ==
  Ratio(width * (timestampSec - p.startTimeSec), p.endTimeSec - p.startTimeSec)

\* The hover points before the focus is known.
HoverPointsAt(p, st, hoverTimestampSec) ==
  LET visible == getVisibleMultiSeries(st)
  IN [i \in 1..Len(visible) |->
        LET datapoint == getDatapointAtTimestamp(visible[i], hoverTimestampSec)
        IN [graphValue |-> getDatapointGraphValue(p, st, datapoint),
            value |-> datapoint.value,
            key |-> visible[i].key,
            name |-> visible[i].name,
            color |-> visible[i].color]]

\* lodash minBy over the points at the indices in candidates, rank[i] being
\* the iteratee's value of point i: the index of the first point of least
\* rank, 0 (no point) when there is no candidate.
MinBy(candidates, rank) ==
  IF candidates = {} THEN 0
  ELSE CHOOSE i \in candidates :
         \A j \in candidates : rank[i] < rank[j] \/ (rank[i] = rank[j] /\ i <= j)

\* A stacked focus that takes the series nearest to the cursor.
FocusedIndexStackedNearest(hoverPoints, cursor) ==
  MinBy(1..Len(hoverPoints),
        [i \in 1..Len(hoverPoints) |->
           Abs(hoverPoints[i].graphValue.n * cursor.den - cursor.num)])

\* Stacked graph: the closest series above the cursor
\* (graphValue >= cursorValue, then the least graphValue).
FocusedIndexStacked(hoverPoints, cursor) ==
  MinBy({i \in 1..Len(hoverPoints) :
           hoverPoints[i].graphValue.n * cursor.den >= cursor.num},
        [i \in 1..Len(hoverPoints) |-> hoverPoints[i].graphValue.n])

\* Line graph: the series with the nearest value; Math.abs(null - c) is
\* Math.abs(c).
FocusedIndexLine(hoverPoints, cursor) ==
  MinBy(1..Len(hoverPoints),
        [i \in 1..Len(hoverPoints) |->
           Abs(ToNumber(hoverPoints[i].graphValue) * cursor.den - cursor.num)])

FocusedIndex(p, hoverPoints, cursor) ==
  IF p.showStacked THEN FocusedIndexStacked(hoverPoints, cursor)
  ELSE FocusedIndexLine(hoverPoints, cursor)

\* The hover points with their focus flags: focusedSeries.key === s.key,
\* where focusedSeries is {} when minBy found none.
WithFocus(hoverPoints, focusedIndex) ==
  [i \in 1..Len(hoverPoints) |->
     [graphValue |-> hoverPoints[i].graphValue,
      value |-> hoverPoints[i].value,
      key |-> hoverPoints[i].key,
      name |-> hoverPoints[i].name,
      color |-> hoverPoints[i].color,
      focused |-> focusedIndex # 0 /\ hoverPoints[focusedIndex].key = hoverPoints[i].key]]

IsFocused(point) == point.focused

\* The hover points setState receives: only the focused one under simpleTooltip.
TooltipPoints(p, hoverPoints) ==
  IF p.simpleTooltip THEN SelectSeq(hoverPoints, IsFocused) ELSE hoverPoints

Array(items) == [k |-> "array", items |-> items]

\* Whether the handler throws: getDatapointGraphValue reads a field of an
\* undefined datapoint.
MouseMoveThrows(p, st, hoverTimestampSec) ==
  \E i \in 1..Len(getVisibleMultiSeries(st)) :
     getDatapointAtTimestamp(getVisibleMultiSeries(st)[i], hoverTimestampSec) = Undefined

(***************************************************************************)
(* The handlers as actions.                                                *)
(***************************************************************************)
\* componentWillMount: processMultiSeries(this.props).
componentWillMount ==
  /\ ~mounted
  /\ mounted' = TRUE
  /\ state' = [state EXCEPT !.multiSeries = processMultiSeries(props)]
  /\ cursorValue' = Null
  /\ UNCHANGED <<props, output>>

\* componentWillReceiveProps(nextProps): the series are processed again only
\* when nextProps.multiSeries is another array than this.props.multiSeries
\* (sameArray says it is the same one, hence with the same content).
ReceiveProps(nextProps, sameArray) ==
  /\ mounted
  /\ sameArray => nextProps.multiSeries = props.multiSeries
  /\ props' = nextProps
  /\ state' = IF sameArray THEN state
              ELSE [state EXCEPT !.multiSeries = processMultiSeries(nextProps)]
  /\ cursorValue' = Null
  /\ UNCHANGED <<mounted, output>>

\* The keys the legend can report: those of the series it shows, or null.
\* The legend is rendered only for more than one series.
LegendKeys == {state.multiSeries[i].key : i \in 1..Len(state.multiSeries)} \cup {Null}

handleSelectedLegendSeriesChange ==
  /\ mounted
  /\ Len(state.multiSeries) > 1
  /\ \E selectedLegendSeriesKey \in LegendKeys :
       state' = [state EXCEPT !.selectedLegendSeriesKey = selectedLegendSeriesKey]
  /\ cursorValue' = Null
  /\ UNCHANGED <<props, mounted, output>>

handleHoveredLegendSeriesChange ==
  /\ mounted
  /\ Len(state.multiSeries) > 1
  /\ \E hoveredLegendSeriesKey \in LegendKeys :
       state' = [state EXCEPT !.hoveredLegendSeriesKey = hoveredLegendSeriesKey]
  /\ cursorValue' = Null
  /\ UNCHANGED <<props, mounted, output>>

\* handleGraphMouseMove for a pointer at (cursorXOffset, cursorYOffset) of a
\* surface of width by height pixels.  A handler that throws sets no state.
MouseMove(width, height, cursorXOffset, cursorYOffset) ==
  LET timestampQuantizer == getTimestampQuantizer(props)
      cursor == CursorValue(props, state, height, cursorYOffset)
      cursorTimestampSec == CursorTimestampSec(props, width, cursorXOffset)
      hoverTimestampSec ==
        Quantize(timestampQuantizer, cursorTimestampSec.num, cursorTimestampSec.den)
      hoverPoints == HoverPointsAt(props, state, hoverTimestampSec)
      focused == WithFocus(hoverPoints, FocusedIndex(props, hoverPoints, cursor))
  IN /\ mounted
     /\ IF MouseMoveThrows(props, state, hoverTimestampSec)
        THEN /\ cursorValue' = Threw
             /\ state' = state
        ELSE /\ cursorValue' = cursor
             /\ state' = [state EXCEPT
                            !.hoverYOffset = Num(cursorYOffset),
                            !.hoverXOffset = TimeScale(props, width, hoverTimestampSec),
                            !.hoverTimestampSec = Num(hoverTimestampSec),
                            !.hoverPoints = Array(TooltipPoints(props, focused))]
     /\ UNCHANGED <<props, mounted, output>>

\* The pointer at the top or the bottom edge of the surface.
handleGraphMouseMove ==
  \E cursorXOffset \in 0..SvgWidth, cursorYOffset \in {0, SvgHeight} :
     MouseMove(SvgWidth, SvgHeight, cursorXOffset, cursorYOffset)

\* The pointer anywhere on the surface.
pointerMove ==
  \E cursorXOffset \in 0..SvgWidth, cursorYOffset \in 0..SvgHeight :
     MouseMove(SvgWidth, SvgHeight, cursorXOffset, cursorYOffset)

handleGraphMouseLeave ==
  /\ mounted
  /\ state' = [state EXCEPT !.hoverYOffset = Null, !.hoverXOffset = Null,
                            !.hoverTimestampSec = Null, !.hoverPoints = Null]
  /\ cursorValue' = Null
  /\ UNCHANGED <<props, mounted, output>>

(***************************************************************************)
(* The inputs of the model.                                                *)
(***************************************************************************)
MakeProps(multiSeries, window, showStacked, simpleTooltip) ==
  [multiSeries |-> multiSeries,
   startTimeSec |-> window.startTimeSec,
   endTimeSec |-> window.endTimeSec,
   stepDurationSec |-> window.stepDurationSec,
   colorTheme |-> "mixed",
   valuesMinSpread |-> MinSpread,
   showStacked |-> showStacked,
   simpleTooltip |-> simpleTooltip]

Window(startTimeSec, endTimeSec, stepDurationSec) ==
  [startTimeSec |-> startTimeSec, endTimeSec |-> endTimeSec,
   stepDurationSec |-> stepDurationSec]

\* Every window with stepDurationSec > 0 and endTimeSec >= startTimeSec.
GridWindows ==
  {w \in {Window(s, e, d) : s \in 0..TimeHi, e \in 0..TimeHi, d \in 1..MaxStep} :
     w.endTimeSec >= w.startTimeSec}

\* The charts' windows: one second steps from ChartTimeLo over more than
\* one grid point.
ChartWindows == {Window(ChartTimeLo, e, 1) : e \in (ChartTimeLo + 1)..ChartTimeHi}

Series(metric, values) == [metric |-> metric, values |-> values]

\* The lists of at most two series, with distinct names, in any order.
SeriesLists(Names, Values) ==
  {<<>>}
  \cup {<<Series(n, v)>> : n \in Names, v \in Values}
  \cup {<<Series(n[1], v[1]), Series(n[2], v[2])>> :
          n \in {m \in Names \X Names : m[1] # m[2]}, v \in Values \X Values}

SeriesNames == {"a", "b"}

\* Props that carry a window only.
GridProps == {MakeProps(<<>>, w, FALSE, FALSE) : w \in GridWindows}

\* Timestamps handed to the quantizer, in half seconds.
QuantizeInputs == (0 - MaxStep)..(2 * TimeHi + MaxStep)

\* The characters of the raw texts.
RawChars == {"3", "4", "-", "+", " ", "x"}

RECURSIVE TextsUpTo(_)
TextsUpTo(len) ==
  IF len = 0 THEN {<<>>}
  ELSE LET shorter == TextsUpTo(len - 1)
       IN shorter \cup {Append(t, c) : t \in shorter, c \in RawChars}

\* The texts of the infinities, and of NaN.
InfinityTexts ==
  {<<"+", "I", "n", "f">>, <<"-", "I", "n", "f">>, InfinityText,
   <<"-">> \o InfinityText, <<"+">> \o InfinityText}

RawTexts == TextsUpTo(MaxRawLen) \cup InfinityTexts \cup {<<"N", "a", "N">>}

\* The sample values of the alignment specification: up to MaxSamples
\* samples at the last two seconds of the charts' time range.
AlignSamples == ((ChartTimeHi - 1)..ChartTimeHi) \X {<<"3">>, <<"4">>, <<"x">>}

RECURSIVE SamplesUpTo(_)
SamplesUpTo(len) ==
  IF len = 0 THEN {<<>>}
  ELSE LET shorter == SamplesUpTo(len - 1)
       IN shorter \cup {Append(v, sample) : v \in shorter, sample \in AlignSamples}

AlignProps ==
  {MakeProps(list, w, FALSE, FALSE) :
     list \in SeriesLists(SeriesNames, SamplesUpTo(MaxSamples)), w \in ChartWindows}

\* The sample values of the hover specification: no sample, or one.
HoverValues == {<<>>} \cup {<< <<ChartTimeHi - 1, raw>> >> : raw \in {<<"3">>, <<"4">>}}

\* Whether the series come in the order of their names.
InNameOrder(list) ==
  \A i \in 1..(Len(list) - 1) : NameCode[list[i].metric] < NameCode[list[i + 1].metric]

\* The props of the hover specification: the series lists in name order.
HoverProps ==
  {MakeProps(list, w, showStacked, simpleTooltip) :
     list \in {l \in SeriesLists(SeriesNames, HoverValues) : InNameOrder(l)},
     w \in ChartWindows, showStacked \in BOOLEAN, simpleTooltip \in BOOLEAN}

\* The props of the lifecycle specification: a line graph, every series
\* with one sample.
LifecycleProps ==
  {MakeProps(list, w, FALSE, FALSE) :
     list \in SeriesLists(SeriesNames, {<< <<ChartTimeHi - 1, <<"3">> >> >>}),
     w \in ChartWindows}

\* The sample values of the axis specification: no sample, or one, of
\* either sign.
AxisValues ==
  HoverValues \cup {<< <<ChartTimeHi - 1, <<"-", "3">> >> >>}

\* The lists of at most three series, named a, b, c, in name order.
AxisLists ==
  {<<>>}
  \cup {l \in SeriesLists({"a", "b", "c"}, AxisValues) : Len(l) > 0 /\ InNameOrder(l)}
  \cup {<<Series("a", v[1]), Series("b", v[2]), Series("c", v[3])>> :
          v \in AxisValues \X AxisValues \X AxisValues}

\* The props of the axis specification.
AxisProps ==
  {MakeProps(list, w, showStacked, FALSE) :
     list \in AxisLists, w \in ChartWindows, showStacked \in BOOLEAN}

(***************************************************************************)
(* The component's lifecycle: mount, input changes, legend and pointer.    *)
(***************************************************************************)
Constructed(p) ==
  /\ props = p
  /\ state = InitialState
  /\ mounted = FALSE
  /\ cursorValue = Null

Init ==
  /\ \E p \in LifecycleProps : Constructed(p)
  /\ output = [op |-> "none"]

componentWillReceiveProps ==
  \E nextProps \in LifecycleProps, sameArray \in BOOLEAN : ReceiveProps(nextProps, sameArray)

Next ==
  \/ componentWillMount
  \/ componentWillReceiveProps
  \/ handleSelectedLegendSeriesChange
  \/ handleHoveredLegendSeriesChange
  \/ handleGraphMouseMove
  \/ handleGraphMouseLeave

Spec == Init /\ [][Next]_vars

(***************************************************************************)
(* One chart under every input of the hover catalogue: mount, legend       *)
(* selection and the pointer anywhere on the surface.                      *)
(***************************************************************************)
InitHover ==
  /\ \E p \in HoverProps : Constructed(p)
  /\ output = [op |-> "none"]

NextHover ==
  \/ componentWillMount
  \/ handleSelectedLegendSeriesChange
  \/ pointerMove
  \/ handleGraphMouseLeave

SpecHover == InitHover /\ [][NextHover]_vars

(***************************************************************************)
(* The y axis of one chart under every input of the axis catalogue: mount  *)
(* and legend selection; yAxisMax is read from the state they leave.       *)
(***************************************************************************)
InitAxis ==
  /\ \E p \in AxisProps : Constructed(p)
  /\ output = [op |-> "none"]

NextAxis ==
  \/ componentWillMount
  \/ handleSelectedLegendSeriesChange

SpecAxis == InitAxis /\ [][NextAxis]_vars

(***************************************************************************)
(* processMultiSeries applied to every input of the alignment catalogue.   *)
(***************************************************************************)
InitAlign ==
  /\ \E p \in AlignProps : Constructed(p)
  /\ output = [op |-> "none"]

NextAlign == componentWillMount

SpecAlign == InitAlign /\ [][NextAlign]_vars

(***************************************************************************)
(* getTimestampQuantizer applied to every window, and the quantizer        *)
(* applied to every timestamp.                                             *)
(***************************************************************************)
InitGrid ==
  /\ \E p \in GridProps : Constructed(p)
  /\ output = [op |-> "window"]

BuildQuantizer ==
  /\ output.op = "window"
  /\ output' = [op |-> "quantizer", q |-> getTimestampQuantizer(props)]
  /\ UNCHANGED <<props, state, mounted, cursorValue>>

\* timestampQuantizer(twice / 2).
ApplyQuantizer ==
  /\ output.op \in {"quantizer", "quantized"}
  /\ \E twice \in QuantizeInputs :
       output' = [op |-> "quantized", q |-> output.q, twice |-> twice,
                  result |-> Quantize(output.q, twice, 2)]
  /\ UNCHANGED <<props, state, mounted, cursorValue>>

NextGrid == BuildQuantizer \/ ApplyQuantizer

SpecGrid == InitGrid /\ [][NextGrid]_vars

(***************************************************************************)
(* parseGraphValue applied to every raw text.                              *)
(***************************************************************************)
InitParse ==
  /\ Constructed(MakeProps(<<>>, Window(0, 0, 1), FALSE, FALSE))
  /\ \E raw \in RawTexts : output = [op |-> "raw", raw |-> raw]

ParseRaw ==
  /\ output.op = "raw"
  /\ output' = [op |-> "parsed", raw |-> output.raw, value |-> parseGraphValue(output.raw)]
  /\ UNCHANGED <<props, state, mounted, cursorValue>>

NextParse == ParseRaw

SpecParse == InitParse /\ [][NextParse]_vars

(***************************************************************************)
(* The claims.                                                             *)
(***************************************************************************)
RECURSIVE LastSampleValue(_, _, _, _)
\* The parsed value of the last of the first len samples of points that
\* quantizes to timestampSec, null when there is none.
LastSampleValue(q, points, len, timestampSec) ==
  IF len = 0 THEN Null
  ELSE IF Quantize(q, points[len][1], 1) = timestampSec
       THEN parseGraphValue(points[len][2])
       ELSE LastSampleValue(q, points, len - 1, timestampSec)

\* C1: after processMultiSeries, for input series with pairwise distinct
\* names in any order, the aligned series named like an input series has at
\* every grid timestamp the value of that input series' last sample that
\* quantizes to the timestamp (a gap when there is none), never a value of
\* another input series.
C1_AlignedValuesBelongToTheirSeries ==
  mounted =>
    LET q == getTimestampQuantizer(props)
    IN \A i \in 1..Len(props.multiSeries) :
         \A s \in 1..Len(state.multiSeries) :
           state.multiSeries[s].name = getSeriesName(props.multiSeries[i]) =>
             \A j \in 1..Len(state.multiSeries[s].datapoints) :
               LET datapoint == state.multiSeries[s].datapoints[j]
                   points == props.multiSeries[i].values
               IN datapoint.value =
                    LastSampleValue(q, points, Len(points), datapoint.timestampSec)

\* C2: whatever input changes came before, the datapoint timestamps of every
\* aligned series in state are the grid of the current window parameters,
\* and no pointer move fails to find its datapoint.
C2_AlignedSeriesFollowTheWindow ==
  mounted =>
    /\ \A s \in 1..Len(state.multiSeries) :
         [j \in 1..Len(state.multiSeries[s].datapoints) |->
            state.multiSeries[s].datapoints[j].timestampSec] = TimestampSecs(props)
    /\ cursorValue # Threw

\* C3: the grid is in ascending numeric order and every two consecutive
\* grid timestamps differ by exactly stepDurationSec.
C3_GridAscendingByStep ==
  output.op \in {"quantizer", "quantized"} =>
    \A i \in 1..(Len(output.q.range) - 1) :
      output.q.range[i + 1] - output.q.range[i] = props.stepDurationSec

C5_QuantizationLocality ==
  output.op = "quantized" =>
    \A g \in SeqRange(output.q.range) :
      Abs(output.twice - 2 * g) < props.stepDurationSec => output.result = g

\* C6: at every grid timestamp the offset of the series at canonical
\* position i is the sum of the values of the series at positions 0..i-1 at
\* that timestamp, a gap counting as 0.
C6_OffsetIsSumOfLowerSeries ==
  mounted =>
    \A s \in 1..Len(state.multiSeries) :
      \A j \in 1..Len(state.multiSeries[s].datapoints) :
        LET datapoint == state.multiSeries[s].datapoints[j]
            ValueBelow(r) ==
              LET at == CHOOSE d \in SeqRange(state.multiSeries[r].datapoints) :
                          d.timestampSec = datapoint.timestampSec
              IN ToNumber(at.value)
            SumBelow[r \in 0..(s - 1)] ==
              IF r = 0 THEN 0 ELSE SumBelow[r - 1] + ValueBelow(r)
        IN datapoint.offset = SumBelow[s - 1]

\* C7: after a pointer move no hover point whose value is a gap is focused,
\* in a stacked and in a line graph.
C7_GapNeverFocused ==
  (cursorValue.k = "ratio" /\ state.hoverPoints.k = "array") =>
    \A i \in 1..Len(state.hoverPoints.items) :
      state.hoverPoints.items[i].value = Null => ~state.hoverPoints.items[i].focused

\* The graph position the pointer move at the hover timestamp reads for a
\* visible series.
HoverPosition(series) ==
  getDatapointGraphValue(props, state,
    getDatapointAtTimestamp(series, state.hoverTimestampSec.n)).n

\* C8: after a pointer move in a stacked graph, the focused series is a
\* visible series of least graph position among those whose graph position
\* is >= the cursor value; no hover point is focused when there is none;
\* at most one hover point is focused.
C8_StackedFocus ==
  (cursorValue.k = "ratio" /\ props.showStacked) =>
    LET visible == getVisibleMultiSeries(state)
        points == state.hoverPoints.items
        focusedPoints == {i \in 1..Len(points) : points[i].focused}
        above == {i \in 1..Len(visible) :
                    HoverPosition(visible[i]) * cursorValue.den >= cursorValue.num}
    IN /\ Cardinality(focusedPoints) <= 1
       /\ above = {} => focusedPoints = {}
       /\ above # {} =>
            \E i \in above :
              /\ \A j \in above : HoverPosition(visible[i]) <= HoverPosition(visible[j])
              /\ \E f \in focusedPoints :
                   /\ points[f].key = visible[i].key
                   /\ points[f].graphValue = Num(HoverPosition(visible[i]))
       /\ ~props.simpleTooltip =>
            /\ Len(points) = Len(visible)
            /\ \A i \in 1..Len(points) : points[i].key = visible[i].key

\* Values 3 and 4 stacked, the cursor at value 5: the second series, whose
\* top is 7, is focused.
C8_Witness ==
  /\ cursorValue.k = "ratio"
  /\ props.showStacked
  /\ ~props.simpleTooltip
  /\ cursorValue.num = 5 * cursorValue.den
  /\ Len(state.hoverPoints.items) = 2
  /\ state.hoverPoints.items[1].value = Num(3)
  /\ state.hoverPoints.items[1].graphValue = Num(3)
  /\ ~state.hoverPoints.items[1].focused
  /\ state.hoverPoints.items[2].value = Num(4)
  /\ state.hoverPoints.items[2].graphValue = Num(7)
  /\ state.hoverPoints.items[2].focused

\* C9: parseGraphValue returns a finite number or the gap, and the gap for
\* every text of an infinity.
C9_ParseNeverInfinite ==
  output.op = "parsed" =>
    /\ output.value.k \in {"num", "null"}
    /\ output.raw \in InfinityTexts => output.value = Null

\* C10: while a legend selection is set, the visible series are exactly
\* one: the series whose key is the selected key.
C10_SelectionShowsOneSeries ==
  (mounted /\ state.selectedLegendSeriesKey # Null) =>
    LET visible == getVisibleMultiSeries(state)
    IN Len(visible) = 1 /\ visible[1].key = state.selectedLegendSeriesKey

\* The graph values of the datapoints of the visible series that are not
\* gaps: the value in a line graph, offset + value in a stacked graph, the
\* offset being 0 under a legend selection.
NonGapGraphValues ==
  LET visible == getVisibleMultiSeries(state)
      offsetOf(datapoint) ==
        IF state.selectedLegendSeriesKey # Null THEN 0 ELSE datapoint.offset
  IN UNION {{IF props.showStacked
               THEN offsetOf(visible[i].datapoints[j]) + visible[i].datapoints[j].value.n
               ELSE visible[i].datapoints[j].value.n :
               j \in {k \in 1..Len(visible[i].datapoints) :
                        visible[i].datapoints[k].value.k = "num"}} :
            i \in 1..Len(visible)}

\* C11: yAxisMax is the maximum of valuesMinSpread and the graph values of
\* the datapoints of the visible series that are not gaps; gaps contribute
\* nothing, so yAxisMax is valuesMinSpread when every visible datapoint is
\* a gap, and it is never below valuesMinSpread.
C11_YAxisMaxExcludesGaps ==
  mounted =>
    LET candidates == {props.valuesMinSpread} \cup NonGapGraphValues
    IN /\ yAxisMax(props, state) \in candidates
       /\ \A c \in candidates : c <= yAxisMax(props, state)
       /\ yAxisMax(props, state) >= props.valuesMinSpread

====
